---- MODULE Spec2Model ----
(***************************************************************************)
(* Model of pierky/arouteserver/config/general.py (ConfigParserGeneral):   *)
(* the overlap detection of BGP communities and the cross-field rules of   *)
(* parse().                                                                *)
(*                                                                         *)
(* A community value is a Python string; it is modelled as a sequence of   *)
(* one-character strings, the empty sequence being the unset value         *)
(* (None or "").  split(":") and int() are computed on the characters.     *)
(* A Python int is modelled by its decimal digits without leading zeros,   *)
(* so that values above 2^31 (4200000000..4294967295) keep their value.    *)
(***************************************************************************)
EXTENDS Integers, Sequences, FiniteSets, TLC

(***************************************************************************)
(* Strings                                                                 *)
(***************************************************************************)

Formats == <<"std", "lrg", "ext">>

Empty == <<>>

peer_as == <<"p", "e", "e", "r", "_", "a", "s">>

dyn_val == <<"d", "y", "n", "_", "v", "a", "l">>

DigitChars == {"0", "1", "2", "3", "4", "5", "6", "7", "8", "9"}

DigitVal(c) ==
    CASE c = "0" -> 0 [] c = "1" -> 1 [] c = "2" -> 2 [] c = "3" -> 3
      [] c = "4" -> 4 [] c = "5" -> 5 [] c = "6" -> 6 [] c = "7" -> 7
      [] c = "8" -> 8 [] c = "9" -> 9

\* str.split(":"): the parts between the colons, "" giving one empty part.
RECURSIVE SplitAcc(_, _, _)
SplitAcc(s, cur, acc) ==
    IF s = <<>> THEN Append(acc, cur)
    ELSE IF Head(s) = ":" THEN SplitAcc(Tail(s), <<>>, Append(acc, cur))
    ELSE SplitAcc(Tail(s), Append(cur, Head(s)), acc)

split(s) == SplitAcc(s, <<>>, <<>>)

\* ":".join(parts): how the input values of the model are written down.
RECURSIVE join(_)
join(parts) ==
    IF Len(parts) = 1 THEN parts[1]
    ELSE parts[1] \o <<":">> \o join(Tail(parts))

(***************************************************************************)
(* Python integers, as decimal digits without leading zeros                *)
(***************************************************************************)

RECURSIVE StripZeros(_)
StripZeros(ds) ==
    IF Len(ds) > 1 /\ Head(ds) = 0 THEN StripZeros(Tail(ds)) ELSE ds

\* What int() gives for a part that is no integer, and Python's None, as
\* values that are no digit sequence.
ValueError == <<-1>>

None == <<-2>>

\* int(part): ValueError unless the part is a non-empty run of digits.
int(part) ==
    IF part = <<>> \/ \E i \in 1..Len(part) : part[i] \notin DigitChars
    THEN ValueError
    ELSE StripZeros([i \in 1..Len(part) |-> DigitVal(part[i])])

RECURSIVE LexLeq(_, _)
LexLeq(a, b) ==
    IF a = <<>> THEN TRUE
    ELSE IF Head(a) # Head(b) THEN Head(a) < Head(b)
    ELSE LexLeq(Tail(a), Tail(b))

\* a <= b on Python integers
IntLeq(a, b) ==
    \/ Len(a) < Len(b)
    \/ Len(a) = Len(b) /\ LexLeq(a, b)

Zero == <<0>>

PrivateAsn16Lo == <<6, 4, 5, 1, 2>>

PrivateAsn16Hi == <<6, 5, 5, 3, 4>>

PrivateAsn32Lo == <<4, 2, 0, 0, 0, 0, 0, 0, 0, 0>>

PrivateAsn32Hi == <<4, 2, 9, 4, 9, 6, 7, 2, 9, 4>>

InPrivateAsn16(n) == IntLeq(PrivateAsn16Lo, n) /\ IntLeq(n, PrivateAsn16Hi)

InPrivateAsn32(n) == IntLeq(PrivateAsn32Lo, n) /\ IntLeq(n, PrivateAsn32Hi)

(***************************************************************************)
(* communities_overlap                                                     *)
(***************************************************************************)

\* PeerAsCheck with the lower bound of the 2-byte range taken as exclusive.
PeerAsCheck_ExclusiveBound(not_peer_as, rs_as, allow_private_asns) ==
    IF not_peer_as = rs_as THEN "continue"
    ELSE IF not_peer_as = Zero THEN "continue"
    ELSE IF /\ allow_private_asns
            /\ InPrivateAsn16(not_peer_as)
            /\ not_peer_as # PrivateAsn16Lo THEN "continue"
    ELSE IF allow_private_asns /\ InPrivateAsn32(not_peer_as) THEN "continue"
    ELSE "ConfigError"

\* The literal against a peer_as part: "continue" or the raised ConfigError.
PeerAsCheck(not_peer_as, rs_as, allow_private_asns) ==
    IF not_peer_as = rs_as THEN "continue"
    ELSE IF not_peer_as = Zero THEN "continue"
    ELSE IF allow_private_asns /\ InPrivateAsn16(not_peer_as) THEN "continue"
    ELSE IF allow_private_asns /\ InPrivateAsn32(not_peer_as) THEN "continue"
    ELSE "ConfigError"

\* The value that is not 'peer_as': None, an integer, or ValueError when
\* int() is given something that is no integer (the other peer_as too).
NotPeerAs(comm1_part, comm2_part) ==
    LET first == IF comm1_part = peer_as THEN int(comm2_part) ELSE None
    IN  IF first = ValueError THEN ValueError
        ELSE IF comm2_part = peer_as THEN int(comm1_part)
        ELSE first

\* PartStep looking for dyn_val in the part of the first community only.
PartStep_DynValFirstOnly(comm1_part, comm2_part, rs_as, allow_private_asns) ==
    IF comm1_part = dyn_val THEN "ConfigError"
    ELSE
      LET not_peer_as == NotPeerAs(comm1_part, comm2_part)
      IN  IF not_peer_as = ValueError THEN "ValueError"
          ELSE IF not_peer_as # None
          THEN PeerAsCheck(not_peer_as, rs_as, allow_private_asns)
          ELSE IF comm1_part # comm2_part THEN "break"
          ELSE "next"

\* PartStep without the break on two different literals.
PartStep_NoBreak(comm1_part, comm2_part, rs_as, allow_private_asns) ==
    IF comm1_part = dyn_val \/ comm2_part = dyn_val THEN "ConfigError"
    ELSE
      LET not_peer_as == NotPeerAs(comm1_part, comm2_part)
      IN  IF not_peer_as = ValueError THEN "ValueError"
          ELSE IF not_peer_as # None
          THEN PeerAsCheck(not_peer_as, rs_as, allow_private_asns)
          ELSE "next"

\* The body of the loop over the parts, for one part_idx: the exception it
\* raises ("ConfigError", "ValueError"), "continue", "break", or "next"
\* when the body runs to its end.
PartStep(comm1_part, comm2_part, rs_as, allow_private_asns) ==
    IF comm1_part = dyn_val \/ comm2_part = dyn_val THEN "ConfigError"
    ELSE
      LET not_peer_as == NotPeerAs(comm1_part, comm2_part)
      IN  IF not_peer_as = ValueError THEN "ValueError"
          ELSE IF not_peer_as # None
          THEN PeerAsCheck(not_peer_as, rs_as, allow_private_asns)
          ELSE IF comm1_part # comm2_part THEN "break"
          ELSE "next"

\* for part_idx in range(len(comm1_parts)): the outcome for one format,
\* "clear" when the loop ends or breaks without raising.
RECURSIVE PartsLoop(_, _, _, _, _)
PartsLoop(comm1_parts, comm2_parts, part_idx, rs_as, allow_private_asns) ==
    IF part_idx > Len(comm1_parts) THEN "clear"
    ELSE IF part_idx > Len(comm2_parts) THEN "IndexError"
    ELSE
      LET step == PartStep(comm1_parts[part_idx], comm2_parts[part_idx],
                           rs_as, allow_private_asns)
      IN  IF step \in {"ConfigError", "ValueError"} THEN step
          ELSE IF step = "break" THEN "clear"
          ELSE PartsLoop(comm1_parts, comm2_parts, part_idx + 1,
                         rs_as, allow_private_asns)

\* One turn of "for fmt in (std, lrg, ext)".
FmtOutcome(comm1_val, comm2_val, rs_as, allow_private_asns) ==
    IF comm1_val = Empty \/ comm2_val = Empty THEN "skipped"
    ELSE PartsLoop(split(comm1_val), split(comm2_val), 1,
                   rs_as, allow_private_asns)

Raises(outcome) == outcome \in {"ConfigError", "ValueError", "IndexError"}

\* The formats in order; a format after a raising one is "notreached".
OverlapTrace(comm1, comm2, rs_as, allow_private_asns) ==
    LET o1 == FmtOutcome(comm1.std, comm2.std, rs_as, allow_private_asns)
        o2 == IF Raises(o1) THEN "notreached"
              ELSE FmtOutcome(comm1.lrg, comm2.lrg, rs_as, allow_private_asns)
        o3 == IF Raises(o1) \/ Raises(o2) THEN "notreached"
              ELSE FmtOutcome(comm1.ext, comm2.ext, rs_as, allow_private_asns)
    IN  [std |-> o1, lrg |-> o2, ext |-> o3]

NoMsg == [comm1_tag |-> "", comm2_tag |-> "", comm1_val |-> Empty,
          comm2_val |-> Empty]

\* communities_overlap(comm1_tag, comm1, comm2_tag, comm2): what it raises
\* ("none" when it returns), the message of a ConfigError, and the outcome
\* of every format.
communities_overlap(comm1_tag, comm1, comm2_tag, comm2, rs_as, allow) ==
    LET trace == OverlapTrace(comm1, comm2, rs_as, allow)
        hit == {i \in 1..3 : Raises(trace[Formats[i]])}
        fmt == Formats[CHOOSE i \in hit : TRUE]
    IN  IF hit = {} THEN [exc |-> "none", msg |-> NoMsg, trace |-> trace]
        ELSE [exc |-> trace[fmt],
              msg |-> IF trace[fmt] = "ConfigError"
                      THEN [comm1_tag |-> comm1_tag, comm2_tag |-> comm2_tag,
                            comm1_val |-> comm1[fmt], comm2_val |-> comm2[fmt]]
                      ELSE NoMsg,
              trace |-> trace]

(***************************************************************************)
(* COMMUNITIES_SCHEMA                                                      *)
(***************************************************************************)

OutboundTags ==
    {"origin_present_in_as_set", "origin_not_present_in_as_set",
     "prefix_present_in_as_set", "prefix_not_present_in_as_set",
     "prefix_validated_via_rpki_roas"}

InboundTags ==
    {"blackholing", "do_not_announce_to_any", "do_not_announce_to_peer",
     "announce_to_peer", "do_not_announce_to_peers_with_rtt_lower_than",
     "do_not_announce_to_peers_with_rtt_higher_than",
     "announce_to_peers_with_rtt_lower_than",
     "announce_to_peers_with_rtt_higher_than", "prepend_once_to_any",
     "prepend_twice_to_any", "prepend_thrice_to_any", "prepend_once_to_peer",
     "prepend_twice_to_peer", "prepend_thrice_to_peer",
     "prepend_once_to_peers_with_rtt_lower_than",
     "prepend_twice_to_peers_with_rtt_lower_than",
     "prepend_thrice_to_peers_with_rtt_lower_than",
     "prepend_once_to_peers_with_rtt_higher_than",
     "prepend_twice_to_peers_with_rtt_higher_than",
     "prepend_thrice_to_peers_with_rtt_higher_than", "add_noexport_to_any",
     "add_noadvertise_to_any", "add_noexport_to_peer",
     "add_noadvertise_to_peer"}

InternalTags ==
    {"reject_cause", "rejected_route_announced_by"}

PeerAsTags ==
    {"do_not_announce_to_peer", "announce_to_peer", "prepend_once_to_peer",
     "prepend_twice_to_peer", "prepend_thrice_to_peer",
     "add_noexport_to_peer", "add_noadvertise_to_peer"}

DynValTags ==
    {"do_not_announce_to_peers_with_rtt_lower_than",
     "do_not_announce_to_peers_with_rtt_higher_than",
     "announce_to_peers_with_rtt_lower_than",
     "announce_to_peers_with_rtt_higher_than",
     "prepend_once_to_peers_with_rtt_lower_than",
     "prepend_twice_to_peers_with_rtt_lower_than",
     "prepend_thrice_to_peers_with_rtt_lower_than",
     "prepend_once_to_peers_with_rtt_higher_than",
     "prepend_twice_to_peers_with_rtt_higher_than",
     "prepend_thrice_to_peers_with_rtt_higher_than", "reject_cause",
     "rejected_route_announced_by"}

RttTags ==
    {"do_not_announce_to_peers_with_rtt_lower_than",
     "do_not_announce_to_peers_with_rtt_higher_than",
     "announce_to_peers_with_rtt_lower_than",
     "announce_to_peers_with_rtt_higher_than",
     "prepend_once_to_peers_with_rtt_lower_than",
     "prepend_twice_to_peers_with_rtt_lower_than",
     "prepend_thrice_to_peers_with_rtt_lower_than",
     "prepend_once_to_peers_with_rtt_higher_than",
     "prepend_twice_to_peers_with_rtt_higher_than",
     "prepend_thrice_to_peers_with_rtt_higher_than"}

BuiltinTags == OutboundTags \cup InboundTags \cup InternalTags

COMMUNITIES_SCHEMA ==
    [t \in BuiltinTags |->
        [type |-> IF t \in OutboundTags THEN "outbound"
                  ELSE IF t \in InboundTags THEN "inbound" ELSE "internal",
         peer_as |-> t \in PeerAsTags,
         dyn_val |-> t \in DynValTags,
         rtt |-> t \in RttTags]]

\* The names a user gives to custom communities in the model: one of its
\* own and one that is also the name of a built-in community.
CustomNames == {"test", "blackholing"}

\* sorted(): the built-in and custom names in Python's string order.
SortedNames ==
    <<"add_noadvertise_to_any", "add_noadvertise_to_peer",
      "add_noexport_to_any", "add_noexport_to_peer", "announce_to_peer",
      "announce_to_peers_with_rtt_higher_than",
      "announce_to_peers_with_rtt_lower_than", "blackholing",
      "do_not_announce_to_any", "do_not_announce_to_peer",
      "do_not_announce_to_peers_with_rtt_higher_than",
      "do_not_announce_to_peers_with_rtt_lower_than",
      "origin_not_present_in_as_set", "origin_present_in_as_set",
      "prefix_not_present_in_as_set", "prefix_present_in_as_set",
      "prefix_validated_via_rpki_roas", "prepend_once_to_any",
      "prepend_once_to_peer", "prepend_once_to_peers_with_rtt_higher_than",
      "prepend_once_to_peers_with_rtt_lower_than", "prepend_thrice_to_any",
      "prepend_thrice_to_peer",
      "prepend_thrice_to_peers_with_rtt_higher_than",
      "prepend_thrice_to_peers_with_rtt_lower_than", "prepend_twice_to_any",
      "prepend_twice_to_peer", "prepend_twice_to_peers_with_rtt_higher_than",
      "prepend_twice_to_peers_with_rtt_lower_than", "reject_cause",
      "rejected_route_announced_by", "test">>

Rank(tag) == CHOOSE i \in 1..Len(SortedNames) : SortedNames[i] = tag

(***************************************************************************)
(* Input values                                                            *)
(***************************************************************************)

S0 == <<"0">>

S00 == <<"0", "0">>

S1 == <<"1">>

S2 == <<"2">>

S64511 == <<"6", "4", "5", "1", "1">>

S64512 == <<"6", "4", "5", "1", "2">>

S65500 == <<"6", "5", "5", "0", "0">>

S65501 == <<"6", "5", "5", "0", "1">>

S65520 == <<"6", "5", "5", "2", "0">>

S65534 == <<"6", "5", "5", "3", "4">>

S65535 == <<"6", "5", "5", "3", "5">>

S4199999999 == <<"4", "1", "9", "9", "9", "9", "9", "9", "9", "9">>

S4200000000 == <<"4", "2", "0", "0", "0", "0", "0", "0", "0", "0">>

S4294967294 == <<"4", "2", "9", "4", "9", "6", "7", "2", "9", "4">>

S4294967295 == <<"4", "2", "9", "4", "9", "6", "7", "2", "9", "5">>

\* "a:b" and "a:b:c"
V2(a, b) == join(<<a, b>>)

V3(a, b, c) == join(<<a, b, c>>)

UnsetComm == [std |-> Empty, lrg |-> Empty, ext |-> Empty]

OnlyStd(v) == [UnsetComm EXCEPT !.std = v]

OnlyLrg(v) == [UnsetComm EXCEPT !.lrg = v]

OnlyExt(v) == [UnsetComm EXCEPT !.ext = v]

\* The last parts tried against each other: the literals around the bounds
\* of the private ASN ranges, 0 (also written 00), 1, and the two macros.
LastParts ==
    {S0, S00, S1, S64511, S64512, S65500, S65534, S65535, S4199999999,
     S4200000000, S4294967294, S4294967295, peer_as, dyn_val}

\* Values of two parts: those of prefix 65500, and three of prefix 65501.
PairStdValues ==
    {V2(S65500, l) : l \in LastParts}
        \cup {V2(S65501, S1), V2(S65501, peer_as), V2(S65501, dyn_val)}

\* Values of three parts, the macros in the last part only.
PairLrgValues ==
    {V3(S65500, S1, peer_as), V3(S65500, S1, dyn_val),
     V3(S65500, S2, S1), V3(S65500, S1, S1)}

PairExtValues == {V3(S65500, S1, S1)}

PairComms ==
    [std : PairStdValues \cup {Empty},
     lrg : PairLrgValues \cup {Empty},
     ext : PairExtValues \cup {Empty}]

\* rs_as, an integer (ValidatorASN)
RsAsValues == {int(S65500), int(S64511)}

(***************************************************************************)
(* State                                                                   *)
(***************************************************************************)

VARIABLES
    cfg,        \* self.cfg["cfg"] after validation
    pc,         \* the position in the running function
    errors,     \* parse(): the local flag
    log,        \* what logging.error / logging.warning were given, in order
    rtt_based_functions_are_used,
    call,       \* the arguments of a function that is called on its own
    ret,        \* what that call returned or raised
    file,       \* CachedObject: what the file at _get_object_filepath() holds
    epoch_time, \* CachedObject: int(time.time())
    raw_data    \* CachedObject: self.raw_data

vars ==
    <<cfg, pc, errors, log, rtt_based_functions_are_used, call, ret, file,
      epoch_time, raw_data>>

\* The cache file when there is none, and a CachedObject as __init__ leaves
\* it.
NoFile == [kind |-> "missing", ts |-> 0, data |-> ""]

NoRawData == "None"

CacheUnused == file = NoFile /\ epoch_time = 0 /\ raw_data = NoRawData

NoBlackhole ==
    [policy_ipv4 |-> "None", policy_ipv6 |-> "None",
     rewrite_next_hop_ipv4 |-> "", rewrite_next_hop_ipv6 |-> ""]

\* A configuration that sets no community.  cfg.communities holds an entry
\* for every tag of COMMUNITIES_SCHEMA; the state keeps the entries that set
\* a value, and Community gives the entry of any tag.
BaseCfg ==
    [rs_as |-> int(S65500),
     communities |-> [t \in {} |-> UnsetComm],
     custom_communities |-> [n \in {} |-> UnsetComm],
     reject_policy |-> "reject",
     blackhole_filtering |-> NoBlackhole,
     rtt_thresholds |-> <<>>,
     global_black_list_pref |-> <<>>,
     tag_as_set |-> FALSE,
     custom_communities_is_dict |-> TRUE]

\* self.cfg["cfg"]["communities"][tag]
Community(c, tag) ==
    IF tag \in DOMAIN c.communities THEN c.communities[tag] ELSE UnsetComm

NotCalled == [exc |-> "notcalled"]

(***************************************************************************)
(* communities_overlap called on a pair of communities                     *)
(***************************************************************************)

InitOverlap ==
    /\ \E r \in RsAsValues : cfg = [BaseCfg EXCEPT !.rs_as = r]
    /\ \E c1 \in PairComms, c2 \in PairComms, a \in BOOLEAN :
          call = [comm1_tag |-> "announce_to_peer", comm1 |-> c1,
                  comm2_tag |-> "test", comm2 |-> c2,
                  allow_private_asns |-> a]
    /\ pc = "call"
    /\ ret = NotCalled
    /\ errors = FALSE
    /\ log = <<>>
    /\ rtt_based_functions_are_used = FALSE
    /\ CacheUnused

CallCommunitiesOverlap ==
    /\ pc = "call"
    /\ ret' = communities_overlap(call.comm1_tag, call.comm1,
                                  call.comm2_tag, call.comm2,
                                  cfg.rs_as, call.allow_private_asns)
    /\ pc' = "return"
    /\ UNCHANGED <<cfg, errors, log, rtt_based_functions_are_used, call,
                   file, epoch_time, raw_data>>

NextOverlap == CallCommunitiesOverlap

SpecOverlap == InitOverlap /\ [][NextOverlap]_vars

(***************************************************************************)
(* Configurations                                                          *)
(***************************************************************************)

\* The communities a configuration of the model may set, built-in ("b") and
\* custom ("c"), and the values it may give to each: peer_as and dyn_val end
\* the values of the communities that COMMUNITIES_SCHEMA flags so, the other
\* values are literal.
Slots ==
    <<<<"b", "announce_to_peer">>, <<"b", "do_not_announce_to_peer">>,
      <<"b", "announce_to_peers_with_rtt_lower_than">>,
      <<"b", "blackholing">>, <<"b", "origin_present_in_as_set">>,
      <<"b", "prefix_present_in_as_set">>, <<"b", "reject_cause">>,
      <<"b", "rejected_route_announced_by">>,
      <<"c", "test">>, <<"c", "blackholing">>>>

SlotOptions(slot) ==
    CASE slot = <<"b", "announce_to_peer">> ->
            {OnlyStd(V2(S65500, peer_as))}
      [] slot = <<"b", "do_not_announce_to_peer">> ->
            {OnlyStd(V2(S65500, peer_as)), OnlyStd(V2(S65501, peer_as))}
      [] slot = <<"b", "announce_to_peers_with_rtt_lower_than">> ->
            {OnlyStd(V2(S65501, dyn_val)), OnlyLrg(V3(S65500, S1, dyn_val)),
             OnlyExt(V3(S65500, S2, dyn_val))}
      [] slot = <<"b", "blackholing">> ->
            {OnlyStd(V2(S65520, S1))}
      [] slot = <<"b", "origin_present_in_as_set">> ->
            {OnlyStd(V2(S65500, S64512)), OnlyStd(V2(S65501, S1)),
             OnlyLrg(V3(S65500, S1, S1))}
      [] slot = <<"b", "prefix_present_in_as_set">> ->
            {OnlyStd(V2(S65500, S1)), OnlyStd(V2(S65500, S2))}
      [] slot = <<"b", "reject_cause">> ->
            {OnlyStd(V2(S65520, dyn_val)), OnlyLrg(V3(S65520, S1, dyn_val)),
             OnlyExt(V3(S65520, S1, dyn_val))}
      [] slot = <<"b", "rejected_route_announced_by">> ->
            {OnlyLrg(V3(S65520, S2, dyn_val))}
      [] slot = <<"c", "test">> ->
            {OnlyStd(V2(S65500, S1)), OnlyStd(V2(S65500, S65501)),
             OnlyExt(V3(S65500, S1, S1)),
             [std |-> Empty, lrg |-> V3(S65500, S1, S1),
              ext |-> V3(S65500, S1, S1)]}
      [] slot = <<"c", "blackholing">> ->
            {OnlyStd(V2(S65501, S1))}

\* What a slot may hold: one of its values, or nothing.
SlotChoices(i) == SlotOptions(Slots[i]) \cup {UnsetComm}

SlotsSet(choice) == {i \in 1..Len(Slots) : choice[i] # UnsetComm}

\* The communities ("b") or custom_communities ("c") section of a choice.
Section(choice, kind) ==
    LET set == {i \in SlotsSet(choice) : Slots[i][1] = kind}
    IN  [t \in {Slots[i][2] : i \in set} |->
            choice[CHOOSE i \in set : Slots[i][2] = t]]

\* The configuration of a choice.
Config(choice) ==
    [BaseCfg EXCEPT !.communities = Section(choice, "b"),
                    !.custom_communities = Section(choice, "c")]

\* c is a configuration that sets at most max communities.
IsConfig(c, max) ==
    \E v1 \in SlotChoices(1), v2 \in SlotChoices(2), v3 \in SlotChoices(3),
       v4 \in SlotChoices(4), v5 \in SlotChoices(5), v6 \in SlotChoices(6),
       v7 \in SlotChoices(7), v8 \in SlotChoices(8), v9 \in SlotChoices(9),
       v10 \in SlotChoices(10) :
        LET choice == <<v1, v2, v3, v4, v5, v6, v7, v8, v9, v10>>
        IN  /\ Cardinality(SlotsSet(choice)) <= max
            /\ c = Config(choice)

(***************************************************************************)
(* compare_communities, check_overlapping_communities                      *)
(***************************************************************************)

\* sorted(comms): the tags of a group in Python's string order.
sorted(comms) == SelectSeq(SortedNames, LAMBDA t : t \in DOMAIN comms)

\* The groups hold the entries that set a value: an entry whose three values
\* are unset is skipped in every format by communities_overlap.
outbound_communities(c) ==
    [t \in DOMAIN c.communities \cap OutboundTags |-> c.communities[t]]

inbound_communities(c) ==
    [t \in DOMAIN c.communities \cap InboundTags |-> c.communities[t]]

internal_communities(c) ==
    [t \in DOMAIN c.communities \cap InternalTags |-> c.communities[t]]

custom_communities(c) == c.custom_communities

\* dict.update: the entries of d2 replace those of d1 with the same name.
update(d1, d2) == d2 @@ d1

not_internal_communities(c) ==
    update(update(inbound_communities(c), outbound_communities(c)),
           custom_communities(c))

ReasonInOut == "Inbound communities and outbound communities"

ReasonInCustom == "Inbound communities and custom communities"

ReasonInIn == "Inbound communities"

ReasonInternal == "Internal communities"

\* A line given to logging.error or logging.warning.
LogLine(level, text, tag1, tag2, val1, val2, more) ==
    [level |-> level, text |-> text, tag1 |-> tag1, tag2 |-> tag2,
     val1 |-> val1, val2 |-> val2, more |-> more]

\* What compare_communities does with the outcome r of communities_overlap:
\* "log" (the error is logged and False returned), "raise" (an exception
\* that is no ConfigError passes through) or "next".
AfterOverlap(r) ==
    IF r.exc = "ConfigError" THEN "log"
    ELSE IF r.exc # "none" THEN "raise"
    ELSE "next"

\* What compare_communities returns, the exception it lets through and the
\* line it logs, when the outcome r ends it.
CompareEnd(r, reason_text) ==
    IF r.exc = "ConfigError"
    THEN [ret |-> FALSE, exc |-> "none",
          logged |-> <<LogLine("error", "overlap",
                               r.msg.comm1_tag, r.msg.comm2_tag,
                               r.msg.comm1_val, r.msg.comm2_val,
                               reason_text)>>]
    ELSE [ret |-> FALSE, exc |-> r.exc, logged |-> <<>>]

\* The two loops of compare_communities from tags1[i], tags2[j] on.
RECURSIVE CompareFrom(_, _, _, _, _, _, _, _, _)
CompareFrom(comms1, comms2, tags1, tags2, i, j, reason_text, rs_as, allow) ==
    IF i > Len(tags1) THEN [ret |-> TRUE, exc |-> "none", logged |-> <<>>]
    ELSE IF j > Len(tags2)
    THEN CompareFrom(comms1, comms2, tags1, tags2, i + 1, 1,
                     reason_text, rs_as, allow)
    ELSE IF tags1[i] = tags2[j]
    THEN CompareFrom(comms1, comms2, tags1, tags2, i, j + 1,
                     reason_text, rs_as, allow)
    ELSE IF AfterOverlap(communities_overlap(
                tags1[i], comms1[tags1[i]], tags2[j], comms2[tags2[j]],
                rs_as, allow)) = "next"
    THEN CompareFrom(comms1, comms2, tags1, tags2, i, j + 1,
                     reason_text, rs_as, allow)
    ELSE CompareEnd(communities_overlap(
                        tags1[i], comms1[tags1[i]], tags2[j],
                        comms2[tags2[j]], rs_as, allow),
                    reason_text)

compare_communities(comms1, comms2, reason_text, rs_as, allow) ==
    CompareFrom(comms1, comms2, sorted(comms1), sorted(comms2), 1, 1,
                reason_text, rs_as, allow)

\* The four pairings, in the order of the calls.
Pairings(c) ==
    <<[comms1 |-> inbound_communities(c),
       comms2 |-> outbound_communities(c), reason |-> ReasonInOut],
      [comms1 |-> inbound_communities(c),
       comms2 |-> custom_communities(c), reason |-> ReasonInCustom],
      [comms1 |-> inbound_communities(c),
       comms2 |-> inbound_communities(c), reason |-> ReasonInIn],
      [comms1 |-> internal_communities(c),
       comms2 |-> not_internal_communities(c), reason |-> ReasonInternal]>>

\* How check_overlapping_communities ends once a call r of
\* compare_communities has raised or returned False: errors is True, the
\* later calls are not made ("or" does not evaluate its right side) and
\* ConfigError is raised at the end.
CheckEnd(r) ==
    IF r.exc # "none" THEN [exc |-> r.exc, logged |-> r.logged]
    ELSE [exc |-> "ConfigError", logged |-> r.logged]

\* errors = errors or not compare_communities(...), from the k-th pairing
\* on, errors being False so far.
RECURSIVE CheckFrom(_, _, _, _)
CheckFrom(pairings, k, rs_as, allow) ==
    IF k > Len(pairings) THEN [exc |-> "none", logged |-> <<>>]
    ELSE IF compare_communities(pairings[k].comms1, pairings[k].comms2,
                                pairings[k].reason, rs_as, allow).ret
    THEN CheckFrom(pairings, k + 1, rs_as, allow)
    ELSE CheckEnd(compare_communities(pairings[k].comms1,
                                      pairings[k].comms2,
                                      pairings[k].reason, rs_as, allow))

\* check_overlapping_communities(allow_private_asns): the exception it
\* ends with ("none" when it returns) and the lines it logs.
check_overlapping_communities(c, allow_private_asns) ==
    CheckFrom(Pairings(c), 1, c.rs_as, allow_private_asns)

(***************************************************************************)
(* Properties of communities_overlap                                       *)
(***************************************************************************)

FormatSet == {"std", "lrg", "ext"}

Parts1(fmt) == split(call.comm1[fmt])

Parts2(fmt) == split(call.comm2[fmt])

\* The call has returned or raised, both communities have a value in fmt,
\* and the loop over the formats came to fmt.
Compared(fmt) ==
    /\ pc = "return"
    /\ call.comm1[fmt] # Empty
    /\ call.comm2[fmt] # Empty
    /\ ret.trace[fmt] # "notreached"

\* The pair is reported as overlapping in fmt: ConfigError is raised with
\* the message that names the two tags and their values in fmt.
Reported(fmt) ==
    /\ ret.trace[fmt] = "ConfigError"
    /\ ret.exc = "ConfigError"
    /\ ret.msg = [comm1_tag |-> call.comm1_tag, comm2_tag |-> call.comm2_tag,
                  comm1_val |-> call.comm1[fmt], comm2_val |-> call.comm2[fmt]]

IsMacro(part) == part = peer_as \/ part = dyn_val

IsInteger(part) == int(part) # ValueError

Last(parts) == parts[Len(parts)]

\* The parts before the last are pairwise equal.
SamePrefix(p1, p2) ==
    /\ Len(p1) = Len(p2)
    /\ \A i \in 1..(Len(p1) - 1) : p1[i] = p2[i]

\* One value ends in peer_as and the other in a literal integer.
PeerAsAgainstLiteral(fmt) ==
    /\ SamePrefix(Parts1(fmt), Parts2(fmt))
    /\ \/ Last(Parts1(fmt)) = peer_as /\ IsInteger(Last(Parts2(fmt)))
       \/ Last(Parts2(fmt)) = peer_as /\ IsInteger(Last(Parts1(fmt)))

\* That literal integer n.
Fixed(fmt) ==
    IF Last(Parts1(fmt)) = peer_as THEN int(Last(Parts2(fmt)))
    ELSE int(Last(Parts1(fmt)))

Between(lo, n, hi) == IntLeq(lo, n) /\ IntLeq(n, hi)

PrivateOrReserved(n) ==
    \/ Between(<<6, 4, 5, 1, 2>>, n, <<6, 5, 5, 3, 4>>)
    \/ Between(<<4, 2, 0, 0, 0, 0, 0, 0, 0, 0>>, n,
               <<4, 2, 9, 4, 9, 6, 7, 2, 9, 4>>)

JustOutside ==
    {<<6, 4, 5, 1, 1>>, <<6, 5, 5, 3, 5>>,
     <<4, 1, 9, 9, 9, 9, 9, 9, 9, 9>>, <<4, 2, 9, 4, 9, 6, 7, 2, 9, 5>>}

JustInside ==
    {<<6, 4, 5, 1, 2>>, <<6, 5, 5, 3, 4>>,
     <<4, 2, 0, 0, 0, 0, 0, 0, 0, 0>>, <<4, 2, 9, 4, 9, 6, 7, 2, 9, 4>>}

\* C1: in a compared format where the parts before the last are equal, one
\* value ends in peer_as and the other in the literal integer n, the pair is
\* reported as overlapping if and only if n # rs_as, n # 0 and not
\* (allow_private_asns and n in 64512..65534 or 4200000000..4294967294).
\* With rs_as none of them: 64511, 65535, 4199999999 and 4294967295 always
\* overlap; 64512, 65534, 4200000000 and 4294967294 overlap exactly when the
\* carve-out is disabled.
C1_PeerAsAgainstLiteral ==
    \A fmt \in FormatSet :
        Compared(fmt) /\ PeerAsAgainstLiteral(fmt) =>
            LET n == Fixed(fmt)
            IN  /\ Reported(fmt) <=>
                     /\ n # cfg.rs_as
                     /\ n # <<0>>
                     /\ ~(call.allow_private_asns /\ PrivateOrReserved(n))
                /\ n \in JustOutside /\ cfg.rs_as \notin JustOutside
                     => Reported(fmt)
                /\ n \in JustInside /\ cfg.rs_as \notin JustInside
                     => (Reported(fmt) <=> ~call.allow_private_asns)

\* A value ending in peer_as was compared with the literal 4200000000 under
\* the carve-out and the pair was not reported.
C1_Witness ==
    \E fmt \in FormatSet :
        /\ Compared(fmt)
        /\ PeerAsAgainstLiteral(fmt)
        /\ Fixed(fmt) = <<4, 2, 0, 0, 0, 0, 0, 0, 0, 0>>
        /\ call.allow_private_asns
        /\ ~Reported(fmt)
        /\ ret.exc = "none"

HasDynVal(fmt) ==
    \/ \E i \in 1..Len(Parts1(fmt)) : Parts1(fmt)[i] = dyn_val
    \/ \E i \in 1..Len(Parts2(fmt)) : Parts2(fmt)[i] = dyn_val

\* C2 as claimed: in a compared format where one of the two values contains
\* dyn_val, the pair is reported as overlapping whatever the other parts are.
C2_DynValAlwaysOverlaps ==
    \A fmt \in FormatSet :
        Compared(fmt) /\ HasDynVal(fmt) => Reported(fmt)

\* C2 as amended: in a compared format where one of the two values contains
\* dyn_val, the pair is reported as overlapping if and only if the parts
\* before the last are pairwise equal.
C2_DynValOverlapsOnSamePrefix ==
    \A fmt \in FormatSet :
        Compared(fmt) /\ HasDynVal(fmt) =>
            (Reported(fmt) <=> SamePrefix(Parts1(fmt), Parts2(fmt)))

\* A value ending in dyn_val was compared with a value of three parts that
\* ends in a literal and has the same first two parts, and was reported.
C2_Witness ==
    /\ Compared("lrg")
    /\ HasDynVal("lrg")
    /\ ~IsMacro(Last(Parts1("lrg"))) \/ ~IsMacro(Last(Parts2("lrg")))
    /\ SamePrefix(Parts1("lrg"), Parts2("lrg"))
    /\ Reported("lrg")

\* The two values have two different literals at some position.
LiteralsDifferAt(fmt, i) ==
    /\ i <= Len(Parts1(fmt))
    /\ i <= Len(Parts2(fmt))
    /\ ~IsMacro(Parts1(fmt)[i])
    /\ ~IsMacro(Parts2(fmt)[i])
    /\ Parts1(fmt)[i] # Parts2(fmt)[i]

\* C3: a pair whose values in a compared format have two different literals
\* at some position is not reported as overlapping in that format, whatever
\* the later parts are, and the next format is compared.
C3_StopsAtFirstDifference ==
    \A fmt \in FormatSet :
        Compared(fmt) /\ (\E i \in 1..3 : LiteralsDifferAt(fmt, i)) =>
            /\ ret.trace[fmt] = "clear"
            /\ fmt = "std" => ret.trace.lrg # "notreached"
            /\ fmt = "lrg" => ret.trace.ext # "notreached"

\* Two values of three parts whose second parts differ, one of them ending
\* in dyn_val, were compared and not reported.
C3_Witness ==
    /\ Compared("lrg")
    /\ ~LiteralsDifferAt("lrg", 1)
    /\ LiteralsDifferAt("lrg", 2)
    /\ HasDynVal("lrg")
    /\ ret.trace.lrg = "clear"

(***************************************************************************)
(* compare_communities called on a pairing, in both orders                 *)
(***************************************************************************)

\* The most communities set in a configuration whose overlaps are checked.
MaxOverlapSet == 4

InitCompare ==
    /\ IsConfig(cfg, MaxOverlapSet)
    /\ \E k \in 1..4, a \in BOOLEAN :
          call = [pairing |-> k, allow_private_asns |-> a]
    /\ pc = "call"
    /\ ret = [ab |-> NotCalled, ba |-> NotCalled]
    /\ errors = FALSE
    /\ log = <<>>
    /\ rtt_based_functions_are_used = FALSE
    /\ CacheUnused

\* compare_communities(comms1, comms2, reason_text)
CallCompareCommunities ==
    /\ pc = "call"
    /\ LET p == Pairings(cfg)[call.pairing]
       IN  ret' = [ret EXCEPT !.ab =
                      compare_communities(p.comms1, p.comms2, p.reason,
                                          cfg.rs_as, call.allow_private_asns)]
    /\ pc' = "swapped"
    /\ UNCHANGED <<cfg, errors, log, rtt_based_functions_are_used, call,
                   file, epoch_time, raw_data>>

\* compare_communities(comms2, comms1, reason_text)
CallCompareCommunitiesSwapped ==
    /\ pc = "swapped"
    /\ LET p == Pairings(cfg)[call.pairing]
       IN  ret' = [ret EXCEPT !.ba =
                      compare_communities(p.comms2, p.comms1, p.reason,
                                          cfg.rs_as, call.allow_private_asns)]
    /\ pc' = "return"
    /\ UNCHANGED <<cfg, errors, log, rtt_based_functions_are_used, call,
                   file, epoch_time, raw_data>>

NextCompare == CallCompareCommunities \/ CallCompareCommunitiesSwapped

SpecCompare == InitCompare /\ [][NextCompare]_vars

(***************************************************************************)
(* check_overlapping_communities called with either flag                   *)
(***************************************************************************)

InitCheck ==
    /\ IsConfig(cfg, MaxOverlapSet)
    /\ call = [fn |-> "check_overlapping_communities"]
    /\ pc = "call"
    /\ ret = [a \in BOOLEAN |-> NotCalled]
    /\ errors = FALSE
    /\ log = <<>>
    /\ rtt_based_functions_are_used = FALSE
    /\ CacheUnused

CallCheckOverlappingCommunities ==
    /\ pc = "call"
    /\ \E a \in BOOLEAN :
          /\ ret[a] = NotCalled
          /\ ret' = [ret EXCEPT ![a] = check_overlapping_communities(cfg, a)]
    /\ pc' = IF \A a \in BOOLEAN : ret'[a] # NotCalled
             THEN "return" ELSE "call"
    /\ UNCHANGED <<cfg, errors, log, rtt_based_functions_are_used, call,
                   file, epoch_time, raw_data>>

NextCheck == CallCheckOverlappingCommunities

SpecCheck == InitCheck /\ [][NextCheck]_vars

(***************************************************************************)
(* Properties of compare_communities and check_overlapping_communities     *)
(***************************************************************************)

\* The pairs of tags that the logged lines name, as unordered pairs.
ConflictPairs(logged) ==
    {{logged[i].tag1, logged[i].tag2} : i \in 1..Len(logged)}

\* C4 as claimed: comparing the groups of a pairing in one order and in the
\* other reports the same set of conflicting pairs of tags.
C4_SameConflictsBothOrders ==
    pc = "return" /\ ret.ab.exc = "none" /\ ret.ba.exc = "none" =>
        ConflictPairs(ret.ab.logged) = ConflictPairs(ret.ba.logged)

\* C5 as claimed: every pair reported with allow_private_asns = True is
\* reported with allow_private_asns = False, for the same configuration.
C5_DisabledCarveOutReportsSuperset ==
    /\ pc = "return"
    /\ ret[TRUE].exc \in {"none", "ConfigError"}
    /\ ret[FALSE].exc \in {"none", "ConfigError"}
    => ConflictPairs(ret[TRUE].logged) \subseteq ConflictPairs(ret[FALSE].logged)

\* The pair of tags overlaps in the k-th pairing.
Overlapping(c, k, tag1, tag2, allow) ==
    LET p == Pairings(c)[k]
    IN  /\ tag1 \in DOMAIN p.comms1
        /\ tag2 \in DOMAIN p.comms2
        /\ tag1 # tag2
        /\ communities_overlap(tag1, p.comms1[tag1], tag2, p.comms2[tag2],
                               c.rs_as, allow).exc = "ConfigError"

Names == {SortedNames[i] : i \in 1..Len(SortedNames)}

\* C6 as claimed: a call of check_overlapping_communities logs, for every
\* pairing and every pair of distinct tags of it that overlaps, an error that
\* names the two tags (in either order) and the pairing.
C6_EveryConflictReported ==
    \A a \in BOOLEAN :
        ret[a] # NotCalled /\ ret[a].exc \in {"none", "ConfigError"} =>
            \A k \in 1..4, tag1 \in Names, tag2 \in Names :
                Overlapping(cfg, k, tag1, tag2, a) =>
                    \E i \in 1..Len(ret[a].logged) :
                        /\ {ret[a].logged[i].tag1, ret[a].logged[i].tag2}
                               = {tag1, tag2}
                        /\ ret[a].logged[i].more = Pairings(cfg)[k].reason

(***************************************************************************)
(* parse: the configurations it is run on                                  *)
(***************************************************************************)

\* The most settings of a configuration that differ from BaseCfg: the
\* communities set, and the options given another value.
MaxSettings == 3

\* blackhole_filtering as the validation leaves it: an empty section, or
\* per address family no policy, propagate-unchanged, or rewrite-next-hop
\* without and with the address.
EmptySection == [k \in {} |-> ""]

FamilyOptions(addr) ==
    {<<"None", "">>, <<"propagate-unchanged", "">>,
     <<"rewrite-next-hop", "">>, <<"rewrite-next-hop", addr>>}

BlackholeOptions ==
    {EmptySection} \cup
    {[policy_ipv4 |-> o4[1], rewrite_next_hop_ipv4 |-> o4[2],
      policy_ipv6 |-> o6[1], rewrite_next_hop_ipv6 |-> o6[2]] :
        o4 \in FamilyOptions("192.0.2.1"),
        o6 \in FamilyOptions("2001:db8::1")}

\* The options of a configuration, beside its communities.
Options ==
    [reject_policy : {"reject", "tag"},
     blackhole_filtering : BlackholeOptions,
     rtt_thresholds : {<<>>, <<5, 10>>},
     global_black_list_pref : {<<>>, <<"192.0.2.0/24">>},
     tag_as_set : BOOLEAN,
     custom_communities_is_dict : BOOLEAN]

\* How many options differ from BaseCfg, an address family counting for one.
Changed(o) ==
    (IF o.reject_policy # BaseCfg.reject_policy THEN 1 ELSE 0)
    + (IF DOMAIN o.blackhole_filtering = {} THEN 1
       ELSE (IF o.blackhole_filtering.policy_ipv4 # "None" THEN 1 ELSE 0)
            + (IF o.blackhole_filtering.policy_ipv6 # "None" THEN 1 ELSE 0))
    + (IF o.rtt_thresholds # <<>> THEN 1 ELSE 0)
    + (IF o.global_black_list_pref # <<>> THEN 1 ELSE 0)
    + (IF o.tag_as_set THEN 1 ELSE 0)
    + (IF ~o.custom_communities_is_dict THEN 1 ELSE 0)

ConfigWith(choice, o) ==
    [Config(choice) EXCEPT
        !.reject_policy = o.reject_policy,
        !.blackhole_filtering = o.blackhole_filtering,
        !.rtt_thresholds = o.rtt_thresholds,
        !.global_black_list_pref = o.global_black_list_pref,
        !.tag_as_set = o.tag_as_set,
        !.custom_communities_is_dict = o.custom_communities_is_dict]

\* c is a configuration that differs from BaseCfg in at most max settings.
IsParseConfig(c, max) ==
    \E v1 \in SlotChoices(1), v2 \in SlotChoices(2), v3 \in SlotChoices(3),
       v4 \in SlotChoices(4), v5 \in SlotChoices(5), v6 \in SlotChoices(6),
       v7 \in SlotChoices(7), v8 \in SlotChoices(8), v9 \in SlotChoices(9),
       v10 \in SlotChoices(10) :
        /\ Cardinality(SlotsSet(<<v1, v2, v3, v4, v5, v6, v7, v8, v9,
                                  v10>>)) <= max
        /\ \E o \in Options :
              /\ Changed(o)
                   + Cardinality(SlotsSet(<<v1, v2, v3, v4, v5, v6, v7, v8,
                                            v9, v10>>)) <= max
              /\ c = ConfigWith(<<v1, v2, v3, v4, v5, v6, v7, v8, v9, v10>>,
                                o)

(***************************************************************************)
(* parse: its rules                                                        *)
(***************************************************************************)

\* A line that names no community.
Line(level, text, more) == LogLine(level, text, "", "", Empty, Empty, more)

\* comm[fmt] is set, for one of the three formats.
IsSet(comm) == \E i \in 1..3 : comm[Formats[i]] # Empty

\* Warning: missing global black list.
GlobalBlackListWarning(c) ==
    IF c.global_black_list_pref = <<>>
    THEN <<Line("warning", "global_black_list_pref", "")>>
    ELSE <<>>

AsSetTags ==
    {"prefix_present_in_as_set", "prefix_not_present_in_as_set",
     "origin_present_in_as_set", "origin_not_present_in_as_set"}

\* Warning: 'tag_as_set' is on but no communities are provided.
TagAsSetWarning(c) ==
    IF c.tag_as_set /\ ~\E t \in AsSetTags : IsSet(Community(c, t))
    THEN <<Line("warning", "tag_as_set", "")>>
    ELSE <<>>

\* The error of one address family: the policy is rewrite-next-hop and no
\* address is given.
RewriteNextHopError_Ipv4Only(bh, ip_ver) ==
    IF ip_ver = 4 /\ bh.policy_ipv4 = "rewrite-next-hop"
                  /\ bh.rewrite_next_hop_ipv4 = ""
    THEN <<Line("error", "rewrite_next_hop", "IPv4")>>
    ELSE <<>>

RewriteNextHopError(bh, ip_ver) ==
    IF ip_ver = 4
    THEN IF bh.policy_ipv4 = "rewrite-next-hop"
            /\ bh.rewrite_next_hop_ipv4 = ""
         THEN <<Line("error", "rewrite_next_hop", "IPv4")>>
         ELSE <<>>
    ELSE IF bh.policy_ipv6 = "rewrite-next-hop"
            /\ bh.rewrite_next_hop_ipv6 = ""
         THEN <<Line("error", "rewrite_next_hop", "IPv6")>>
         ELSE <<>>

\* for ip_ver in (4, 6): an empty section is skipped.
BlackholeErrors(c) ==
    IF DOMAIN c.blackhole_filtering = {} THEN <<>>
    ELSE RewriteNextHopError(c.blackhole_filtering, 4)
             \o RewriteNextHopError(c.blackhole_filtering, 6)

\* Custom communities with the name of a built-in community, in the order
\* of the names.
RECURSIVE CollisionsFrom(_, _)
CollisionsFrom(names, i) ==
    IF i > Len(names) THEN <<>>
    ELSE (IF names[i] \in BuiltinTags
          THEN <<LogLine("error", "collides", names[i], "", Empty, Empty,
                         "")>>
          ELSE <<>>)
         \o CollisionsFrom(names, i + 1)

NameCollisionErrors(c) == CollisionsFrom(sorted(c.custom_communities), 1)

\* The values in the order the duplicates rule reads them: the built-in
\* communities, then the custom ones; of each the sorted names; of each
\* community std, lrg, ext.
ValuesOf(comms, kind) ==
    [k \in 1..(3 * Len(sorted(comms))) |->
        [kind |-> kind,
         comm_tag |-> sorted(comms)[((k - 1) \div 3) + 1],
         fmt |-> Formats[((k - 1) % 3) + 1],
         val |-> comms[sorted(comms)[((k - 1) \div 3) + 1]]
                     [Formats[((k - 1) % 3) + 1]]]]

ValuesInOrder(c) ==
    ValuesOf(c.communities, "communities")
        \o ValuesOf(c.custom_communities, "custom_communities")

DuplicateLine(v) ==
    LogLine("error", "duplicate", v.comm_tag, "", v.val, Empty, v.fmt)

\* comm[fmt] in unique_communities: the list holds the values read before,
\* of every format.
AlreadyUsed(v, unique_communities) ==
    \E u \in unique_communities : u.val = v.val

\* The loop over the values from the i-th on.
RECURSIVE DuplicatesFrom(_, _, _)
DuplicatesFrom(values, i, unique_communities) ==
    IF i > Len(values) THEN <<>>
    ELSE IF values[i].val = Empty
    THEN DuplicatesFrom(values, i + 1, unique_communities)
    ELSE IF AlreadyUsed(values[i], unique_communities)
    THEN <<DuplicateLine(values[i])>>
             \o DuplicatesFrom(values, i + 1, unique_communities)
    ELSE DuplicatesFrom(values, i + 1, unique_communities \cup {values[i]})

DuplicateErrors(c) == DuplicatesFrom(ValuesInOrder(c), 1, {})

\* Whether the rule on the reject communities finds the community set.
RejectCommIsSet_StdOnly(c, comm) == Community(c, comm).std # Empty

RejectCommIsSet(c, comm) ==
    \/ Community(c, comm).std # Empty
    \/ Community(c, comm).ext # Empty
    \/ Community(c, comm).lrg # Empty

\* reject_cause and rejected_route_announced_by can be set only if the
\* policy is tag.
RejectOnlyIfTag(c, comm) ==
    IF c.reject_policy # "tag" /\ RejectCommIsSet(c, comm)
    THEN <<LogLine("error", "only_if_tag", comm, "", Empty, Empty, "")>>
    ELSE <<>>

\* reject_cause is mandatory when the policy is tag.
RejectCauseMandatory(c) ==
    IF c.reject_policy = "tag" /\ ~RejectCommIsSet(c, "reject_cause")
    THEN <<Line("error", "reject_cause_mandatory", "")>>
    ELSE <<>>

RejectErrors(c) ==
    RejectOnlyIfTag(c, "reject_cause")
        \o RejectOnlyIfTag(c, "rejected_route_announced_by")
        \o RejectCauseMandatory(c)

\* Are RTT-based functions used?
RttBasedFunctionsAreUsed(c) ==
    \E comm_name \in BuiltinTags :
        /\ COMMUNITIES_SCHEMA[comm_name].rtt
        /\ \/ Community(c, comm_name).std # Empty
           \/ Community(c, comm_name).ext # Empty
           \/ Community(c, comm_name).lrg # Empty

RttThresholdsError(c, used) ==
    IF used /\ c.rtt_thresholds = <<>>
    THEN <<Line("error", "rtt_thresholds", "")>>
    ELSE <<>>

(***************************************************************************)
(* parse                                                                   *)
(***************************************************************************)

\* How parse ended: the exception it raised ("none" when it returned) and
\* the place it raised it at.
Ended(exc, at) == [exc |-> exc, at |-> at]

\* parse is the first to assign rtt_based_functions_are_used: FALSE stands
\* for the attribute that is not set yet.
InitParse ==
    /\ IsParseConfig(cfg, MaxSettings)
    /\ call = [fn |-> "parse"]
    /\ pc = "schema"
    /\ ret = NotCalled
    /\ errors = FALSE
    /\ log = <<>>
    /\ rtt_based_functions_are_used = FALSE
    /\ CacheUnused

\* The validation schema is built; a custom_communities section that is no
\* dictionary raises ConfigError, with a message and without logging.
BuildSchema ==
    /\ pc = "schema"
    /\ IF cfg.custom_communities_is_dict
       THEN pc' = "validate" /\ ret' = ret
       ELSE pc' = "done" /\ ret' = Ended("ConfigError", "schema")
    /\ UNCHANGED <<cfg, errors, log, rtt_based_functions_are_used, call,
                   file, epoch_time, raw_data>>

\* ConfigParserBase.validate accepts the configuration and leaves it
\* normalised in cfg.
ValidatePasses ==
    /\ pc = "validate"
    /\ pc' = "warnings"
    /\ UNCHANGED <<cfg, errors, log, rtt_based_functions_are_used, call,
                   ret,
                   file, epoch_time, raw_data>>

\* ConfigParserBase.validate raises an ARouteServerError, with a message or
\* without: the message is logged and ConfigError raised at once.
ValidateFails ==
    /\ pc = "validate"
    /\ \E message \in BOOLEAN :
          log' = IF message THEN Append(log, Line("error", "validate", ""))
                 ELSE log
    /\ errors' = TRUE
    /\ pc' = "done"
    /\ ret' = Ended("ConfigError", "validate")
    /\ UNCHANGED <<cfg, rtt_based_functions_are_used, call,
                   file, epoch_time, raw_data>>

Warnings ==
    /\ pc = "warnings"
    /\ log' = log \o GlobalBlackListWarning(cfg) \o TagAsSetWarning(cfg)
    /\ pc' = "blackhole"
    /\ UNCHANGED <<cfg, errors, rtt_based_functions_are_used, call, ret,
                   file, epoch_time, raw_data>>

\* One rule of parse: the lines it logs are appended, and errors is set when
\* there is one.
Rule(lines, next) ==
    /\ log' = log \o lines
    /\ errors' = (errors \/ lines # <<>>)
    /\ pc' = next
    /\ UNCHANGED <<cfg, rtt_based_functions_are_used, call, ret,
                   file, epoch_time, raw_data>>

BlackholeNextHops ==
    /\ pc = "blackhole"
    /\ Rule(BlackholeErrors(cfg), "collision")

CustomNameCollision ==
    /\ pc = "collision"
    /\ Rule(NameCollisionErrors(cfg), "duplicates")

DuplicateCommunities ==
    /\ pc = "duplicates"
    /\ Rule(DuplicateErrors(cfg), "reject")

RejectCommunities ==
    /\ pc = "reject"
    /\ Rule(RejectErrors(cfg), "overlap")

\* self.check_overlapping_communities(): an ARouteServerError sets errors
\* (the ConfigError it raises has no message, nothing more is logged); any
\* other exception leaves parse.
AfterCheck(r) ==
    /\ log' = log \o r.logged
    /\ errors' = (errors \/ r.exc = "ConfigError")
    /\ IF r.exc \in {"none", "ConfigError"}
       THEN pc' = "rtt" /\ ret' = ret
       ELSE pc' = "done" /\ ret' = Ended(r.exc, "overlap")

OverlappingCommunities ==
    /\ pc = "overlap"
    /\ AfterCheck(check_overlapping_communities(cfg, TRUE))
    /\ UNCHANGED <<cfg, rtt_based_functions_are_used, call,
                   file, epoch_time, raw_data>>

RttBasedFunctions ==
    /\ pc = "rtt"
    /\ rtt_based_functions_are_used' = RttBasedFunctionsAreUsed(cfg)
    /\ log' = log \o RttThresholdsError(cfg, RttBasedFunctionsAreUsed(cfg))
    /\ errors' = (errors
                    \/ RttThresholdsError(cfg, RttBasedFunctionsAreUsed(cfg))
                         # <<>>)
    /\ pc' = "end"
    /\ UNCHANGED <<cfg, call, ret,
                   file, epoch_time, raw_data>>

\* if errors: raise ConfigError()
EndOfParse ==
    /\ pc = "end"
    /\ ret' = IF errors THEN Ended("ConfigError", "end")
              ELSE Ended("none", "end")
    /\ pc' = "done"
    /\ UNCHANGED <<cfg, errors, log, rtt_based_functions_are_used, call,
                   file, epoch_time, raw_data>>

NextParse ==
    \/ BuildSchema
    \/ ValidatePasses
    \/ ValidateFails
    \/ Warnings
    \/ BlackholeNextHops
    \/ CustomNameCollision
    \/ DuplicateCommunities
    \/ RejectCommunities
    \/ OverlappingCommunities
    \/ RttBasedFunctions
    \/ EndOfParse

SpecParse == InitParse /\ [][NextParse]_vars

(***************************************************************************)
(* Properties of parse                                                     *)
(***************************************************************************)

PcOrder ==
    <<"schema", "validate", "warnings", "blackhole", "collision",
      "duplicates", "reject", "overlap", "rtt", "end", "done">>

Pos(p) == CHOOSE i \in 1..Len(PcOrder) : PcOrder[i] = p

\* The run passed the validation and has evaluated the rule of that step.
Evaluated(step) ==
    IF pc = "done" THEN Pos(ret.at) > Pos(step) ELSE Pos(pc) > Pos(step)

\* The run passed the validation and has ended, with or without exception.
ValidatedRunEnded == pc = "done" /\ ret.at \notin {"schema", "validate"}

\* How many lines with that level, text, tag and address family were logged.
NumLogged(level, text, tag1, more) ==
    Cardinality({i \in 1..Len(log) :
                    /\ log[i].level = level
                    /\ log[i].text = text
                    /\ log[i].tag1 = tag1
                    /\ log[i].more = more})

ErrorLogged == \E i \in 1..Len(log) : log[i].level = "error"

RejectTags == {"reject_cause", "rejected_route_announced_by"}

\* C7: in a run that passes the validation the rule on the reject
\* communities logs one error for each of reject_cause and
\* rejected_route_announced_by that has a value in std, lrg or ext while the
\* policy is not tag, one error when the policy is tag and reject_cause has
\* no value in any format, and nothing else; errors is set exactly when an
\* error has been logged.
C7_RejectTagRule ==
    Evaluated("reject") =>
        /\ \A comm \in RejectTags :
              NumLogged("error", "only_if_tag", comm, "") =
                  IF cfg.reject_policy # "tag" /\ IsSet(Community(cfg, comm))
                  THEN 1 ELSE 0
        /\ NumLogged("error", "reject_cause_mandatory", "", "") =
              IF cfg.reject_policy = "tag"
                 /\ ~IsSet(Community(cfg, "reject_cause"))
              THEN 1 ELSE 0
        /\ \A i \in 1..Len(log) :
              /\ log[i].text = "only_if_tag" => log[i].tag1 \in RejectTags
              /\ log[i].text \in {"only_if_tag", "reject_cause_mandatory"}
                   => errors
        /\ pc = "overlap" => (errors <=> ErrorLogged)

\* The policy is reject, rejected_route_announced_by alone is set, in lrg
\* only: parse logged the one error that names it and raised ConfigError.
C7_Witness ==
    /\ ValidatedRunEnded
    /\ cfg.reject_policy = "reject"
    /\ Community(cfg, "rejected_route_announced_by").std = Empty
    /\ Community(cfg, "rejected_route_announced_by").lrg # Empty
    /\ ~IsSet(Community(cfg, "reject_cause"))
    /\ NumLogged("error", "only_if_tag", "rejected_route_announced_by", "")
         = 1
    /\ NumLogged("error", "only_if_tag", "reject_cause", "") = 0
    /\ ret.exc = "ConfigError"

\* At least one built-in community flagged rtt has a value in some format.
RttCommunitySet ==
    \E t \in RttTags : IsSet(Community(cfg, t))

\* C8 as claimed: after any run that passes the validation,
\* rtt_based_functions_are_used is true if and only if a community flagged
\* rtt is set; the error on the thresholds is logged if and only if the flag
\* is true and rtt_thresholds is empty; a run that returns with the flag
\* true has thresholds.
C8_RttFlagAndThresholds ==
    ValidatedRunEnded =>
        /\ rtt_based_functions_are_used <=> RttCommunitySet
        /\ NumLogged("error", "rtt_thresholds", "", "") > 0
             <=> (rtt_based_functions_are_used /\ cfg.rtt_thresholds = <<>>)
        /\ ret.exc = "none" /\ rtt_based_functions_are_used
             => cfg.rtt_thresholds # <<>>

Families == {4, 6}

FamilyName(v) == IF v = 4 THEN "IPv4" ELSE "IPv6"

policy_ipv(v) ==
    IF v = 4 THEN cfg.blackhole_filtering.policy_ipv4
    ELSE cfg.blackhole_filtering.policy_ipv6

rewrite_next_hop_ipv(v) ==
    IF v = 4 THEN cfg.blackhole_filtering.rewrite_next_hop_ipv4
    ELSE cfg.blackhole_filtering.rewrite_next_hop_ipv6

MissingRewriteAddress(v) ==
    /\ DOMAIN cfg.blackhole_filtering # {}
    /\ policy_ipv(v) = "rewrite-next-hop"
    /\ rewrite_next_hop_ipv(v) = ""

\* C9: in a run that passes the validation, for each address family v the
\* error that names IPv{v} is logged, once, if and only if policy_ipv{v} is
\* rewrite-next-hop and rewrite_next_hop_ipv{v} is empty, whatever the other
\* family is set to; errors is set exactly when one of the two is logged.
C9_BlackholeRewritePerFamily ==
    Evaluated("blackhole") =>
        /\ \A v \in Families :
              NumLogged("error", "rewrite_next_hop", "", FamilyName(v)) =
                  IF MissingRewriteAddress(v) THEN 1 ELSE 0
        /\ \A i \in 1..Len(log) :
              log[i].text = "rewrite_next_hop" =>
                  errors /\ log[i].more \in {"IPv4", "IPv6"}
        /\ pc = "collision" => (errors <=> ErrorLogged)

\* IPv6 is rewrite-next-hop without address, IPv4 is propagate-unchanged:
\* parse logged the error of IPv6, none for IPv4, and raised ConfigError.
C9_Witness ==
    /\ ValidatedRunEnded
    /\ DOMAIN cfg.blackhole_filtering # {}
    /\ policy_ipv(4) = "propagate-unchanged"
    /\ MissingRewriteAddress(6)
    /\ NumLogged("error", "rewrite_next_hop", "", "IPv6") = 1
    /\ NumLogged("error", "rewrite_next_hop", "", "IPv4") = 0
    /\ ret.exc = "ConfigError"

\* The values that repeat a value read before them in the same format.
SameFormatDuplicates ==
    {i \in 1..Len(ValuesInOrder(cfg)) :
        /\ ValuesInOrder(cfg)[i].val # Empty
        /\ \E j \in 1..(i - 1) :
              /\ ValuesInOrder(cfg)[j].val = ValuesInOrder(cfg)[i].val
              /\ ValuesInOrder(cfg)[j].fmt = ValuesInOrder(cfg)[i].fmt}

\* The lines of the duplicates rule that name the community, format, value.
DuplicateLines(comm_tag, fmt, val) ==
    {i \in 1..Len(log) :
        /\ log[i].text = "duplicate"
        /\ log[i].tag1 = comm_tag
        /\ log[i].more = fmt
        /\ log[i].val1 = val}

\* C10 as claimed: in a run that passes the validation the duplicates rule
\* logs one error for each value that repeats a value of the same format
\* read before it, and none for a value that is equal only to values of
\* other formats.
C10_DuplicatesInSameFormatOnly ==
    Evaluated("duplicates") =>
        \A i \in 1..Len(ValuesInOrder(cfg)) :
            ValuesInOrder(cfg)[i].val # Empty =>
                Cardinality(DuplicateLines(ValuesInOrder(cfg)[i].comm_tag,
                                           ValuesInOrder(cfg)[i].fmt,
                                           ValuesInOrder(cfg)[i].val)) =
                Cardinality({j \in SameFormatDuplicates :
                    /\ ValuesInOrder(cfg)[j].comm_tag
                         = ValuesInOrder(cfg)[i].comm_tag
                    /\ ValuesInOrder(cfg)[j].fmt = ValuesInOrder(cfg)[i].fmt
                    /\ ValuesInOrder(cfg)[j].val
                         = ValuesInOrder(cfg)[i].val})

\* ConfigParserBase.validate reported an error in this run, which has ended.
ValidationFailed == pc = "done" /\ ret.at = "validate"

\* C11 as claimed: a run in which ConfigParserBase.validate reports an error
\* goes on to the cross-field rules and the overlap detection, and raises
\* ConfigError only at the end of parse, after the last rule.
C11_ValidationErrorDoesNotAbort ==
    ValidationFailed =>
        /\ Evaluated("blackhole")
        /\ Evaluated("overlap")
        /\ Evaluated("rtt")
        /\ ret = Ended("ConfigError", "end")

\* The six fatal rules, each as a condition on the configuration.
RewriteAddressMissing == \E v \in Families : MissingRewriteAddress(v)

CustomNameCollides == DOMAIN cfg.custom_communities \cap BuiltinTags # {}

\* Two values are equal, in whatever formats.
ValueUsedTwice ==
    \E i, j \in 1..Len(ValuesInOrder(cfg)) :
        /\ j < i
        /\ ValuesInOrder(cfg)[i].val # Empty
        /\ ValuesInOrder(cfg)[j].val = ValuesInOrder(cfg)[i].val

RejectTagMisconfigured ==
    \/ /\ cfg.reject_policy # "tag"
       /\ \E comm \in RejectTags : IsSet(Community(cfg, comm))
    \/ /\ cfg.reject_policy = "tag"
       /\ ~IsSet(Community(cfg, "reject_cause"))

SomePairOverlaps ==
    \E k \in 1..4, tag1 \in Names, tag2 \in Names :
        Overlapping(cfg, k, tag1, tag2, TRUE)

RttWithoutThresholds == RttCommunitySet /\ cfg.rtt_thresholds = <<>>

FatalRuleViolated ==
    \/ RewriteAddressMissing
    \/ CustomNameCollides
    \/ ValueUsedTwice
    \/ RejectTagMisconfigured
    \/ SomePairOverlaps
    \/ RttWithoutThresholds

\* C12 as claimed: in a run that passes the validation each of the two
\* warnings is logged when its condition holds and leaves errors unset; the
\* run ends with ConfigError raised at the end of parse if one of the six
\* fatal rules is violated, and returns otherwise.
C12_WarningsNeverFatal ==
    /\ pc = "blackhole" => ~errors
    /\ ValidatedRunEnded =>
          /\ NumLogged("warning", "global_black_list_pref", "", "") =
                IF cfg.global_black_list_pref = <<>> THEN 1 ELSE 0
          /\ NumLogged("warning", "tag_as_set", "", "") =
                IF cfg.tag_as_set
                   /\ \A t \in AsSetTags : ~IsSet(Community(cfg, t))
                THEN 1 ELSE 0
          /\ ret = IF FatalRuleViolated THEN Ended("ConfigError", "end")
                   ELSE Ended("none", "end")

(***************************************************************************)
(* CachedObject                                                            *)
(***************************************************************************)

\* The last second of the clock, and program_config.cfg["cache_expiry_time"].
MaxTime == 4

cache_expiry_time == 2

\* What _get_data may return: "" stands for a value that is false in Python
\* (None, an empty string, list or dictionary).
Values == {"", "v1", "v2"}

\* What the file may hold: nothing (no file), text that json.load rejects,
\* a JSON value that is no container (null, a number, true or false), an
\* object without "ts", an object with "ts" and without "data", or a record.
Record(ts, data) == [kind |-> "record", ts |-> ts, data |-> data]

Broken(kind) == [kind |-> kind, ts |-> 0, data |-> ""]

FileStates ==
    {NoFile, Broken("unparseable"), Broken("scalar"), Broken("no_ts"),
     Broken("no_data")}
        \cup {Record(ts, data) : ts \in 0..MaxTime, data \in Values}

\* load_data_from_cache at the second now: "hit" when it returns True, "miss"
\* when it returns False, "TypeError" when '"ts" in data' raises it.
load_data_from_cache(f, now) ==
    IF f.kind \in {"missing", "unparseable"} THEN "miss"
    ELSE IF f.kind = "scalar" THEN "TypeError"
    ELSE IF f.kind \in {"no_ts", "no_data"} THEN "miss"
    ELSE IF f.ts <= now - cache_expiry_time THEN "miss"
    ELSE "hit"

\* What a call of load_data did: the exception it ended with, whether it
\* called _get_data, and the seconds it read in load_data_from_cache and in
\* save_data_to_cache.
Loaded(exc, got_data, now, saved_at) ==
    [exc |-> exc, got_data |-> got_data, now |-> now, saved_at |-> saved_at]

ParserUnused ==
    /\ cfg = BaseCfg
    /\ errors = FALSE
    /\ log = <<>>
    /\ rtt_based_functions_are_used = FALSE

InitCache ==
    /\ file \in FileStates
    /\ epoch_time \in 0..MaxTime
    /\ raw_data = NoRawData
    /\ pc = "idle"
    /\ call = [fn |-> "none"]
    /\ ret = NotCalled
    /\ ParserUnused

\* The clock goes on by a second between two calls.
Tick ==
    /\ epoch_time < MaxTime
    /\ epoch_time' = epoch_time + 1
    /\ UNCHANGED <<cfg, pc, errors, log, rtt_based_functions_are_used, call,
                   ret, file, raw_data>>

\* load_data: the record is valid, raw_data is taken from it.
LoadDataFromCache ==
    /\ load_data_from_cache(file, epoch_time) = "hit"
    /\ raw_data' = file.data
    /\ call' = [fn |-> "load_data", file |-> file]
    /\ ret' = Loaded("none", FALSE, epoch_time, epoch_time)
    /\ UNCHANGED <<cfg, pc, errors, log, rtt_based_functions_are_used, file,
                   epoch_time>>

\* load_data: the file holds a JSON value that is no container, the test
\* '"ts" in data' raises TypeError, which nothing catches.
LoadDataTypeError ==
    /\ load_data_from_cache(file, epoch_time) = "TypeError"
    /\ call' = [fn |-> "load_data", file |-> file]
    /\ ret' = Loaded("TypeError", FALSE, epoch_time, epoch_time)
    /\ UNCHANGED <<cfg, pc, errors, log, rtt_based_functions_are_used, file,
                   epoch_time, raw_data>>

\* The seconds save_data_to_cache may read after load_data_from_cache read
\* now: _get_data takes time.
Later(now) == {t \in {now, now + 1} : t <= MaxTime}

\* load_data: no valid record; _get_data gives v, and save_data_to_cache
\* writes the record when v is true in Python.
LoadDataRecomputes ==
    /\ load_data_from_cache(file, epoch_time) = "miss"
    /\ \E v \in Values, t \in Later(epoch_time) :
          /\ raw_data' = v
          /\ epoch_time' = t
          /\ file' = IF v # "" THEN Record(t, v) ELSE file
          /\ ret' = Loaded("none", TRUE, epoch_time, t)
    /\ call' = [fn |-> "load_data", file |-> file]
    /\ UNCHANGED <<cfg, pc, errors, log, rtt_based_functions_are_used>>

\* load_data: no valid record; _get_data gives a true v and writing it
\* fails: open fails and the file is as before, or json.dump fails and
\* leaves a truncated file.
LoadDataSaveFails ==
    /\ load_data_from_cache(file, epoch_time) = "miss"
    /\ \E v \in Values \ {""}, t \in Later(epoch_time) :
          /\ raw_data' = v
          /\ epoch_time' = t
          /\ ret' = Loaded("CachedObjectsError", TRUE, epoch_time, t)
    /\ file' \in {file, Broken("unparseable")}
    /\ call' = [fn |-> "load_data", file |-> file]
    /\ UNCHANGED <<cfg, pc, errors, log, rtt_based_functions_are_used>>

NextCache ==
    \/ Tick
    \/ LoadDataFromCache
    \/ LoadDataTypeError
    \/ LoadDataRecomputes
    \/ LoadDataSaveFails

SpecCache == InitCache /\ [][NextCache]_vars

(***************************************************************************)
(* Properties of CachedObject                                              *)
(***************************************************************************)

\* load_data has been called, and this is how its last call ended.
LoadDataCalled == call.fn = "load_data"

\* The record is usable at the second now: the file exists, parses, has
\* "ts" and "data", and ts > now - cache_expiry_time.
Usable(f, now) == f.kind = "record" /\ f.ts > now - cache_expiry_time

\* C13 as claimed: a call of load_data at the second now calls _get_data if
\* and only if the file holds no usable record at that second, a record
\* with ts = now - cache_expiry_time being expired; a call that does not
\* call _get_data sets raw_data to the value of the record and leaves the
\* record as it is.
C13_RecomputedIffNoUsableRecord ==
    LoadDataCalled =>
        /\ ret.got_data <=> ~Usable(call.file, ret.now)
        /\ call.file.kind = "record"
             /\ call.file.ts = ret.now - cache_expiry_time => ret.got_data
        /\ ~ret.got_data => raw_data = call.file.data /\ file = call.file

\* C14 as claimed: a call of load_data that finds no usable record calls
\* _get_data; when it returns, the file holds the record of the computed
\* value with the second of that call; it ends otherwise with
\* CachedObjectsError only, the computed value being non-empty.
C14_RecomputedValueIsPersisted ==
    LoadDataCalled /\ ~Usable(call.file, ret.now) =>
        /\ ret.got_data
        /\ ret.exc \in {"none", "CachedObjectsError"}
        /\ ret.exc = "none" => file = Record(ret.saved_at, raw_data)
        /\ ret.exc = "CachedObjectsError" => raw_data # ""

(***************************************************************************)
(* Properties of parse and of the overlap detection together               *)
(***************************************************************************)

\* The two values are set, have the same parts before the last, and both
\* end in peer_as.
BothEndInPeerAs(v1, v2) ==
    /\ v1 # Empty
    /\ v2 # Empty
    /\ SamePrefix(split(v1), split(v2))
    /\ Last(split(v1)) = peer_as
    /\ Last(split(v2)) = peer_as

\* Two distinct tags of some pairing have such values in some format.
PeerAsComparedWithPeerAs ==
    \E k \in 1..4, tag1 \in Names, tag2 \in Names, fmt \in FormatSet :
        /\ tag1 \in DOMAIN Pairings(cfg)[k].comms1
        /\ tag2 \in DOMAIN Pairings(cfg)[k].comms2
        /\ tag1 # tag2
        /\ BothEndInPeerAs(Pairings(cfg)[k].comms1[tag1][fmt],
                           Pairings(cfg)[k].comms2[tag2][fmt])

\* C15 as claimed: a run of parse that passes the validation, on a
\* configuration in which two distinct compared tags have values of one
\* format that are equal up to the last part and both end in peer_as, ends
\* with the ConfigError raised at the end of parse and with no other
\* exception.
C15_PeerAsAgainstPeerAsCompletes ==
    ValidatedRunEnded /\ PeerAsComparedWithPeerAs =>
        ret = Ended("ConfigError", "end")

\* The place in the fixed order of the rule that logs a line with that text.
RuleOf(text) ==
    CASE text \in {"validate", "global_black_list_pref", "tag_as_set"} -> 0
      [] text = "rewrite_next_hop" -> 1
      [] text = "collides" -> 2
      [] text = "duplicate" -> 3
      [] text \in {"only_if_tag", "reject_cause_mandatory"} -> 4
      [] text = "overlap" -> 5
      [] text = "rtt_thresholds" -> 6

HasLine(texts) == \E i \in 1..Len(log) : log[i].text \in texts

\* C16 as claimed: a run that passes the validation evaluates every rule up
\* to the RTT check, whatever errors the earlier rules recorded, and ends at
\* the end of parse; the lines of the rules are logged in the order
\* blackhole rewrite address, custom name collision, duplicate values,
\* reject-tag rules, overlap detection, RTT thresholds; every violated rule
\* has logged its error when ConfigError is raised.
C16_RulesInFixedOrder ==
    /\ ValidatedRunEnded => Evaluated("rtt") /\ ret.at = "end"
    /\ \A i, j \in 1..Len(log) :
          i < j => RuleOf(log[i].text) <= RuleOf(log[j].text)
    /\ ValidatedRunEnded /\ ret.exc # "none" =>
          /\ RewriteAddressMissing => HasLine({"rewrite_next_hop"})
          /\ CustomNameCollides => HasLine({"collides"})
          /\ ValueUsedTwice => HasLine({"duplicate"})
          /\ RejectTagMisconfigured
               => HasLine({"only_if_tag", "reject_cause_mandatory"})
          /\ SomePairOverlaps => HasLine({"overlap"})
          /\ RttWithoutThresholds => HasLine({"rtt_thresholds"})

====
